---------------------------- MODULE Spec2Model ----------------------------
(***************************************************************************)
(* State-machine model of the GPS device backend (src/server.js).          *)
(*                                                                         *)
(* Two collections live in the database: Bus (the assignment registry)     *)
(* and Location (the current fix of each bus).  Every HTTP request is a    *)
(* call that runs through its handler one database round trip at a time;   *)
(* between two round trips (each `await`) any other call may run.          *)
(***************************************************************************)
EXTENDS Integers, Sequences, FiniteSets, TLC

\* ------------------------------------------------------------------ bounds
\* Number of POST /api/register requests of one run.
MaxRegCalls == 3
\* Size of the device-id pool, 1..PoolSize (100 in the source, line 181).
PoolSize == 2
\* Number of POST /api/location requests of one run.
MaxFixCalls == 2
\* Login calls, and the register calls that run beside them.
MaxLoginCalls == 1
MaxLoginRegCalls == 2
\* Server instances that run seedBusNumbers, and the register calls beside them.
MaxSeeders == 2
MaxSeedRegCalls == 1

\* --------------------------------------------------------- JavaScript values
\* null and undefined of a Number-typed field; every real number of the
\* model is >= 0.
NULL == -1
UNDEFINED == -2
\* null and undefined of a String-typed field (username, status).
NullString == "null"
UndefinedString == "undefined"
\* NaN: the value of new Date(s) for a string that is no date.
NaN == -3

\* Speeds (m/s) and headings (degrees) are fixed-point numbers: the integer
\* v stands for v / Fixed.
Fixed == 10 * 10 * 10 * 10 * 10

\* --------------------------------------------------------------- bus data
\* The seed list (three of the ten numbers of the source).
initialBusNumbers == {"MH08AA1234", "MH08BB5678", "MH08CC9012"}
\* A new Bus document: the schema defaults.
busSchema(n) ==
    [busNumber |-> n, assigned |-> FALSE, deviceId |-> NULL, username |-> NullString]

\* Bodies of the POST /api/register requests: a missing field is "".
RegisterBodies ==
    {[username |-> "", busNumber |-> "MH08AA1234"],
     [username |-> "alice", busNumber |-> "MH08AA1234"],
     [username |-> "bob", busNumber |-> "MH08AA1234"],
     [username |-> "alice", busNumber |-> "MH08BB5678"],
     [username |-> "bob", busNumber |-> "MH08CC9012"]}

RegCalls == 1..MaxRegCalls

VARIABLES
    buses,      \* the Bus collection: busNumber -> document (busNumber is unique)
    seedPc,     \* position of seedBusNumbers: "count", "insert", "done"
    reg,        \* the POST /api/register calls: call -> its locals and response
    locations,  \* the Location collection: its documents in insertion order
    fix,        \* the POST /api/location calls: call -> its locals and response
    login,      \* the POST /api/login calls: call -> its username and response
    seeders,    \* the seedBusNumbers runs of the server instances: run -> position
    omitUndefined   \* the installed Mongoose: does an update drop undefined keys
                    \* (6 and later) or write them as null (5)

vars == <<buses, seedPc, reg, locations, fix, login, seeders, omitUndefined>>
registryVars == <<buses, seedPc, reg>>
fixVars == <<locations, fix>>

NoBus == [busNumber |-> "", assigned |-> FALSE, deviceId |-> NULL, username |-> NullString]
NoResponse == [status |-> 0, message |-> "", deviceId |-> NULL]

\* A register call that has not arrived.  sawAssigned and sawPoolSpent record
\* what was true when findOne read the bus: the bus was assigned; register
\* calls on PoolSize distinct buses had returned success.
IdleRegCall ==
    [pc |-> "idle", username |-> "", busNumber |-> "", bus |-> NoBus,
     res |-> NoResponse, sawAssigned |-> FALSE, sawPoolSpent |-> FALSE]

\* ---------------------------------------------------------- location data
FixCalls == 1..MaxFixCalls

\* The timestamp strings of the requests.
T0 == "2024-01-01T00:00:00Z"
T100 == "2024-01-01T00:01:40Z"
T200 == "2024-01-01T00:03:20Z"
\* A timestamp string that new Date cannot parse.
NotADate == "not-a-date"

\* A request body of POST /api/location.  Latitudes are written as the arc
\* length in metres from the equator along the meridian (the angle times R);
\* every body lies on the meridian of longitude 0.
LocationBody(busNumber, latitude, altitude, speed, heading, status, timestamp) ==
    [busNumber |-> busNumber, deviceId |-> 1, latitude |-> latitude, longitude |-> 0,
     altitude |-> altitude, accuracy |-> UNDEFINED, speed |-> speed,
     heading |-> heading, status |-> status, timestamp |-> timestamp]

LocationBodies ==
    {LocationBody("MH08AA1234", 0, UNDEFINED, UNDEFINED, UNDEFINED, UndefinedString, T0),
     LocationBody("MH08AA1234", 100, UNDEFINED, UNDEFINED, UNDEFINED, UndefinedString, T100),
     LocationBody("MH08AA1234", 300, UNDEFINED, UNDEFINED, UNDEFINED, UndefinedString, T200),
     LocationBody("MH08AA1234", 0, 0, 5 * Fixed, 90 * Fixed, "moving", T0),
     LocationBody("MH08AA1234", 300, 400, UNDEFINED, UNDEFINED, UndefinedString, T100),
     LocationBody("MH08AA1234", 0, UNDEFINED, UNDEFINED, UNDEFINED, UndefinedString, T200),
     LocationBody("MH08BB5678", 0, UNDEFINED, UNDEFINED, UNDEFINED, "stopped", T100),
     LocationBody("MH08AA1234", 100, UNDEFINED, UNDEFINED, UNDEFINED, UndefinedString, NotADate),
     LocationBody("MH00XX0000", 0, UNDEFINED, UNDEFINED, UNDEFINED, UndefinedString, T0),
     LocationBody("MH08AA1234", 100, UNDEFINED, Fixed, 90 * Fixed, "moving", T100)}

LoginCalls == 1..MaxLoginCalls
\* Bodies of the POST /api/login requests: the username, "" when missing.
LoginBodies == {"", "alice", "bob"}
\* The response of the login handler.
LoginResponse(status, message, busNumber, deviceId) ==
    [status |-> status, message |-> message, busNumber |-> busNumber,
     deviceId |-> deviceId]
\* A login call that has not arrived.
IdleLoginCall ==
    [pc |-> "idle", username |-> "", res |-> LoginResponse(0, "", "", NULL)]

Seeders == 1..MaxSeeders
\* A seedBusNumbers run that has not started; next is the position in the
\* seed list of the document insertMany writes next.
IdleSeeder == [pc |-> "count", next |-> 1, failed |-> FALSE]

\* No document: what findOne returns when nothing matches.
NoLocation ==
    [busNumber |-> "", deviceId |-> NULL, latitude |-> NULL, longitude |-> NULL,
     altitude |-> NULL, accuracy |-> NULL, speed |-> NULL, heading |-> NULL,
     status |-> NullString, timestamp |-> ""]

\* A location call that has not arrived.  raw is the body as it came, body
\* is req.body after processLocationData, prev the previous fix it loaded,
\* loadFailed whether loading it threw.
IdleFixCall ==
    [pc |-> "idle", raw |-> NoLocation, body |-> NoLocation, prev |-> NoLocation,
     loadFailed |-> FALSE, res |-> [status |-> 0, location |-> NoLocation]]

Init ==
    /\ buses = <<>>
    /\ seedPc = "count"
    /\ reg = [c \in RegCalls |-> IdleRegCall]
    /\ locations = <<>>
    /\ fix = [c \in FixCalls |-> IdleFixCall]
    /\ login = [c \in LoginCalls |-> IdleLoginCall]
    /\ seeders = [i \in Seeders |-> IdleSeeder]
    /\ omitUndefined \in BOOLEAN

\* The server on a Mongoose that drops undefined keys (6 and later).
InitOmitUndefined == Init /\ omitUndefined = TRUE

\* ----------------------------------------------------------------- seeding
\* seedBusNumbers: const count = await Bus.countDocuments()
SeedCount ==
    /\ seedPc = "count"
    /\ seedPc' = IF Cardinality(DOMAIN buses) = 0 THEN "insert" ELSE "done"
    /\ UNCHANGED <<buses, reg, locations, fix, login, seeders, omitUndefined>>

\* seedBusNumbers: await Bus.insertMany(...)
SeedInsert ==
    /\ seedPc = "insert"
    /\ buses' = [n \in initialBusNumbers |-> busSchema(n)]
    /\ seedPc' = "done"
    /\ UNCHANGED <<reg, locations, fix, login, seeders, omitUndefined>>

\* ------------------------------------------------------------ registration
\* The response of a handler.
Response(status, message, deviceId) ==
    [status |-> status, message |-> message, deviceId |-> deviceId]

\* Bus.find({ assigned: true }).distinct('deviceId')
AssignedDeviceIds == {buses[n].deviceId : n \in {m \in DOMAIN buses : buses[m].assigned}}

\* Array.from({ length: 100 }, (_, i) => i+1).filter(i => !assigned.includes(i))
freeIds(assigned) == {i \in 1..PoolSize : i \notin assigned}

\* A handler without `if (!bus)`: bus.assigned throws on null and the
\* catch block answers.
BusNotFound_Throws == Response(500, "Registration failed.", NULL)

\* if (!bus) return res.status(400).json({ message: 'Bus not found' })
BusNotFound == Response(400, "Bus not found", NULL)

\* A handler that lost its `if (bus.assigned)` early return.
AlreadyAssigned_Never(bus) == FALSE

\* if (bus.assigned) return ... 'Bus already assigned'
AlreadyAssigned(bus) == bus.assigned

\* An assignment that forgets `bus.username = username`.
AssignBus_NoUsername(bus, deviceId, username) ==
    [bus EXCEPT !.assigned = TRUE, !.deviceId = deviceId]

\* bus.assigned = true; bus.deviceId = ...; bus.username = username
AssignBus(bus, deviceId, username) ==
    [bus EXCEPT !.assigned = TRUE, !.deviceId = deviceId, !.username = username]

\* The vehicles whose register call has returned success.
RegisteredOk == {reg[d].busNumber : d \in {e \in RegCalls : reg[e].pc = "done" /\ reg[e].res.status = 200}}

\* The request arrives: the handler validates the body, then
\* const bus = await Bus.findOne({ busNumber }) and the two early returns.
RegisterFindOne(c, body) ==
    /\ reg[c].pc = "idle"
    /\ \A d \in RegCalls : d < c => reg[d].pc # "idle"
    /\ LET call == [reg[c] EXCEPT !.username = body.username,
                                  !.busNumber = body.busNumber] IN
       reg' = [reg EXCEPT ![c] =
         IF body.username = "" \/ body.busNumber = ""
         THEN [call EXCEPT !.pc = "done",
                           !.res = Response(400, "Username and busNumber are required", NULL)]
         ELSE IF body.busNumber \notin DOMAIN buses
         THEN [call EXCEPT !.pc = "done", !.res = BusNotFound]
         ELSE IF AlreadyAssigned(buses[body.busNumber])
         THEN [call EXCEPT !.pc = "done", !.sawAssigned = buses[body.busNumber].assigned,
                           !.res = Response(400, "Bus already assigned", NULL)]
         ELSE [call EXCEPT !.pc = "find", !.bus = buses[body.busNumber],
                           !.sawAssigned = buses[body.busNumber].assigned,
                           !.sawPoolSpent = (Cardinality(RegisteredOk) >= PoolSize)]]
    /\ UNCHANGED <<buses, seedPc, locations, fix, login, seeders, omitUndefined>>

\* const assigned = await Bus.find(...).distinct('deviceId'); the free ids;
\* the random pick among them; the three assignments to the loaded document.
RegisterFind(c) ==
    /\ reg[c].pc = "find"
    /\ LET free == freeIds(AssignedDeviceIds) IN
         IF free = {}
         THEN reg' = [reg EXCEPT ![c].pc = "done", ![c].bus = NoBus,
                                 ![c].res = Response(400, "No device IDs left", NULL)]
         ELSE \E id \in free :
                reg' = [reg EXCEPT ![c].pc = "save",
                                   ![c].bus = AssignBus(reg[c].bus, id, reg[c].username)]
    /\ UNCHANGED <<buses, seedPc, locations, fix, login, seeders, omitUndefined>>

\* await bus.save(); res.json({ username, busNumber, deviceId })
RegisterSave(c) ==
    /\ reg[c].pc = "save"
    /\ buses' = [buses EXCEPT ![reg[c].busNumber] = reg[c].bus]
    /\ reg' = [reg EXCEPT ![c].pc = "done", ![c].bus = NoBus,
                          ![c].res = Response(200, "", reg[c].bus.deviceId)]
    /\ UNCHANGED <<seedPc, locations, fix, login, seeders, omitUndefined>>

NextRegistry ==
    \/ SeedCount
    \/ SeedInsert
    \/ \E c \in RegCalls, body \in RegisterBodies : RegisterFindOne(c, body)
    \/ \E c \in RegCalls : RegisterFind(c)
    \/ \E c \in RegCalls : RegisterSave(c)

\* The registry never reads omitUndefined: one build is enough for it.
SpecRegistry == InitOmitUndefined /\ [][NextRegistry]_vars

\* ------------------------------------------------------------------- login
\* A register request for a bus number that is not in the seed list.
UnknownBusBody == [username |-> "alice", busNumber |-> "MH00XX0000"]

\* A findOne that ignores its filter.
LoginMatches_Any(username) == DOMAIN buses

\* Bus.findOne({ username }): the documents it may return.
LoginMatches(username) == {n \in DOMAIN buses : buses[n].username = username}

\* if (!bus?.assigned) return ... 'No configuration found'
NoConfiguration == LoginResponse(400, "No configuration found", "", NULL)

\* POST /api/login: the validation of the body, Bus.findOne({ username }),
\* the early return and res.json({ username, busNumber, deviceId }).
Login(c, username) ==
    /\ login[c].pc = "idle"
    /\ \A d \in LoginCalls : d < c => login[d].pc # "idle"
    /\ \/ /\ username = ""
          /\ login' = [login EXCEPT ![c] =
                 [pc |-> "done", username |-> username,
                  res |-> LoginResponse(400, "Username is required", "", NULL)]]
       \/ /\ username # ""
          /\ LoginMatches(username) = {}
          /\ login' = [login EXCEPT ![c] =
                 [pc |-> "done", username |-> username, res |-> NoConfiguration]]
       \/ /\ username # ""
          /\ \E n \in LoginMatches(username) :
                login' = [login EXCEPT ![c] =
                   [pc |-> "done", username |-> username,
                    res |-> IF ~buses[n].assigned THEN NoConfiguration
                            ELSE LoginResponse(200, "", buses[n].busNumber,
                                               buses[n].deviceId)]]
    /\ UNCHANGED <<buses, seedPc, reg, locations, fix, seeders, omitUndefined>>

\* Seeding, the register calls of MaxLoginRegCalls clients (one of them may
\* ask for an unknown bus) and the login calls.
NextLogin ==
    \/ SeedCount
    \/ SeedInsert
    \/ \E c \in 1..MaxLoginRegCalls, body \in RegisterBodies \cup {UnknownBusBody} :
          RegisterFindOne(c, body)
    \/ \E c \in 1..MaxLoginRegCalls : RegisterFind(c)
    \/ \E c \in 1..MaxLoginRegCalls : RegisterSave(c)
    \/ \E c \in LoginCalls, username \in LoginBodies : Login(c, username)

SpecLogin == InitOmitUndefined /\ [][NextLogin]_vars

\* -------------------------------------------------------------- geo helpers
\* const R = 6378137
R == 6378137

Abs(x) == IF x < 0 THEN -x ELSE x

\* The integer part of the square root of n >= 0.
RECURSIVE SqrtBetween(_, _, _)
SqrtBetween(n, lo, hi) ==
    IF lo >= hi THEN lo
    ELSE LET mid == (lo + hi + 1) \div 2 IN
         IF mid * mid <= n THEN SqrtBetween(n, mid, hi)
         ELSE SqrtBetween(n, lo, mid - 1)

\* Math.sqrt, to the metre.
Sqrt(n) == SqrtBetween(n, 0, 40000)

\* calculateDistance for two points of one meridian (dLon = 0): a is
\* sin(dLat/2)^2, c is |dLat| in radians, which is the difference of the arc
\* lengths divided by R, and the result is R * c, in metres.
calculateDistance(c1, c2) == (R * Abs(c2.latitude - c1.latitude)) \div R

\* calculateBearing for two points of one meridian: y is 0 and x is
\* sin(lat2 - lat1), so atan2 gives 0 (x >= 0: north, or no move) or 180
\* degrees (x < 0: south).
calculateBearing(c1, c2) ==
    IF c2.latitude - c1.latitude >= 0 THEN 0 ELSE 180 * Fixed

\* A filter that smooths unconditionally, null previous value or not.
lowPassFilter_NoNullCheck(curr, prev) == (3 * curr + 7 * prev) \div 10

\* A filter with the weights exchanged: alpha on the previous value.
lowPassFilter_SwappedAlpha(curr, prev) ==
    IF prev \in {NULL, UNDEFINED} THEN curr
    ELSE (7 * curr + 3 * prev) \div 10

\* lowPassFilter with alpha = 0.3: prev == null is true of null and undefined.
lowPassFilter(curr, prev) ==
    IF prev \in {NULL, UNDEFINED} THEN curr
    ELSE (3 * curr + 7 * prev) \div 10

\* new Date(s) as milliseconds since the instant of T0, or NaN.
DateParse(s) ==
    CASE s = T0 -> 0
      [] s = T100 -> 100000
      [] s = T200 -> 200000
      [] OTHER -> NaN

\* The order of the timestamp strings (the index sorts them as strings).
StringRank(s) ==
    CASE s = T0 -> 1
      [] s = T100 -> 2
      [] s = T200 -> 3
      [] OTHER -> 4

\* A JavaScript number as an operand of - : null counts as 0.
ToNumber(x) == IF x = NULL THEN 0 ELSE x

\* altitude = 0 in the destructuring of req.body
AltitudeOrDefault(body) == IF body.altitude = UNDEFINED THEN 0 ELSE body.altitude

\* dt = (new Date(timestamp) - new Date(prev.timestamp)) / 1000, in seconds;
\* NaN when either string is no date.
TimeDiff(prev, body) ==
    IF DateParse(body.timestamp) = NaN \/ DateParse(prev.timestamp) = NaN THEN NaN
    ELSE (DateParse(body.timestamp) - DateParse(prev.timestamp)) \div 1000

\* A middleware that derives for every dt but 0.
ShouldDerive_AnyNonZero(prev, body) ==
    /\ TimeDiff(prev, body) # NaN
    /\ TimeDiff(prev, body) # 0

\* if (dt > 0): false for NaN as well.
ShouldDerive(prev, body) ==
    /\ TimeDiff(prev, body) # NaN
    /\ TimeDiff(prev, body) > 0

\* dist3d = Math.sqrt(dist2d * dist2d + altDiff * altDiff)
dist3d(prev, body) ==
    LET dist2d == calculateDistance(prev, body)
        altDiff == AltitudeOrDefault(body) - ToNumber(prev.altitude)
    IN Sqrt(dist2d * dist2d + altDiff * altDiff)

\* rawSpeed = dist3d / dt
rawSpeed(prev, body) == (dist3d(prev, body) * Fixed) \div TimeDiff(prev, body)

\* rawBearing = calculateBearing(prev, body)
rawBearing(prev, body) == calculateBearing(prev, body)

\* The body that processLocationData hands to the route handler.
DerivedBody(prev, body) ==
    IF prev # NoLocation /\ ShouldDerive(prev, body)
    THEN [body EXCEPT !.speed = lowPassFilter(rawSpeed(prev, body), prev.speed),
                      !.heading = lowPassFilter(rawBearing(prev, body), prev.heading)]
    ELSE body

\* ------------------------------------------------------------- the database
\* The filter { busNumber } left out: every document matches.
Matching_Any(busNumber) == 1..Len(locations)

\* The positions of the documents with this busNumber.
Matching(busNumber) == {i \in 1..Len(locations) : locations[i].busNumber = busNumber}

\* Location.findOne({ busNumber }).sort({ timestamp: -1 }).limit(1): the
\* positions it may return (the order of equal timestamps is not fixed).
Latest(busNumber) ==
    {i \in Matching(busNumber) :
        \A j \in Matching(busNumber) :
            StringRank(locations[j].timestamp) <= StringRank(locations[i].timestamp)}

\* The schema defaults of the fields of the update.
locationSchema ==
    [busNumber |-> "", deviceId |-> NULL, latitude |-> NULL, longitude |-> NULL,
     altitude |-> 0, accuracy |-> 5, speed |-> 0, heading |-> 0,
     status |-> "stopped", timestamp |-> ""]

UpdateFields == {"deviceId", "latitude", "longitude", "altitude", "accuracy",
                 "speed", "heading", "status", "timestamp", "busNumber"}

IsUndefined(v, f) == IF f = "status" THEN v = UndefinedString ELSE
                     IF f \in {"busNumber", "timestamp"} THEN FALSE ELSE v = UNDEFINED

NullOf(f) == IF f = "status" THEN NullString ELSE NULL

\* The document an update { busNumber, deviceId, ..., timestamp } leaves in
\* place of old.  An undefined key is dropped (the field keeps its value)
\* or is written as null, as omitUndefined says.
Updated(old, body) ==
    [f \in UpdateFields |->
        IF IsUndefined(body[f], f)
        THEN IF omitUndefined THEN old[f] ELSE NullOf(f)
        ELSE body[f]]

\* The document an upsert inserts when nothing matches: a field the update
\* does not set gets its schema default.
Inserted(body) == Updated(locationSchema, body)

\* ----------------------------------------------------------- POST /api/location
FixResponse(status, location) == [status |-> status, location |-> location]

\* The request arrives; processLocationData loads the previous fix
\* (const prev = await Location.findOne(...)), derives speed and heading
\* into req.body and calls next().
processLocationData(c, body) ==
    /\ fix[c].pc = "idle"
    /\ \A d \in FixCalls : d < c => fix[d].pc # "idle"
    /\ \/ /\ Matching(body.busNumber) = {}
          /\ fix' = [fix EXCEPT ![c] = [@ EXCEPT !.pc = "findOneAndUpdate", !.raw = body,
                                                 !.prev = NoLocation,
                                                 !.body = DerivedBody(NoLocation, body)]]
       \/ \E i \in Latest(body.busNumber) :
            fix' = [fix EXCEPT ![c] = [@ EXCEPT !.pc = "findOneAndUpdate", !.raw = body,
                                                !.prev = locations[i],
                                                !.body = DerivedBody(locations[i], body)]]
    /\ UNCHANGED <<registryVars, locations, login, seeders, omitUndefined>>

\* Location.findOneAndUpdate({ busNumber }, {...}, { upsert: true, new: true }):
\* a matching document is updated in place and returned; with none, the
\* upsert goes on to insert one.
LocationFindOneAndUpdate(c) ==
    /\ fix[c].pc = "findOneAndUpdate"
    /\ IF Matching(fix[c].body.busNumber) = {}
       THEN /\ fix' = [fix EXCEPT ![c].pc = "insert"]
            /\ UNCHANGED locations
       ELSE \E i \in Matching(fix[c].body.busNumber) :
              LET loc == Updated(locations[i], fix[c].body) IN
                /\ locations' = [locations EXCEPT ![i] = loc]
                /\ fix' = [fix EXCEPT ![c].pc = "done",
                                      ![c].res = FixResponse(200, loc)]
    /\ UNCHANGED <<registryVars, login, seeders, omitUndefined>>

\* The insert of an upsert that matched nothing.  No unique index guards
\* busNumber (locationSchema.index({ busNumber: 1 }) is a plain index), so
\* the insert succeeds whatever was inserted in between.
LocationInsert(c) ==
    /\ fix[c].pc = "insert"
    /\ LET loc == Inserted(fix[c].body) IN
         /\ locations' = Append(locations, loc)
         /\ fix' = [fix EXCEPT ![c].pc = "done", ![c].res = FixResponse(200, loc)]
    /\ UNCHANGED <<registryVars, login, seeders, omitUndefined>>

NextFix ==
    \/ \E c \in FixCalls, body \in LocationBodies : processLocationData(c, body)
    \/ \E c \in FixCalls : LocationFindOneAndUpdate(c)
    \/ \E c \in FixCalls : LocationInsert(c)

SpecFix == Init /\ [][NextFix]_vars

\* The location pipeline on a Mongoose that drops undefined keys (6 and later).
SpecFixOmitUndefined == InitOmitUndefined /\ [][NextFix]_vars

\* processLocationData when Location.findOne rejects (a storage failure):
\* the catch block logs the error and calls next() with req.body as it came.
processLocationDataError(c, body) ==
    /\ fix[c].pc = "idle"
    /\ \A d \in FixCalls : d < c => fix[d].pc # "idle"
    /\ fix' = [fix EXCEPT ![c] = [@ EXCEPT !.pc = "findOneAndUpdate", !.raw = body,
                                           !.body = body, !.loadFailed = TRUE]]
    /\ UNCHANGED <<registryVars, locations, login, seeders, omitUndefined>>

\* The route handler when Location.findOneAndUpdate rejects: the catch block
\* answers 500 'Failed to update location'; nothing is written.
LocationUpdateError(c) ==
    /\ fix[c].pc \in {"findOneAndUpdate", "insert"}
    /\ fix' = [fix EXCEPT ![c].pc = "done", ![c].res = FixResponse(500, NoLocation)]
    /\ UNCHANGED <<registryVars, locations, login, seeders, omitUndefined>>

\* The location pipeline over a database whose operations may fail.
NextFixFaulty ==
    \/ NextFix
    \/ \E c \in FixCalls, body \in LocationBodies : processLocationDataError(c, body)
    \/ \E c \in FixCalls : LocationUpdateError(c)

SpecFixFaulty == Init /\ [][NextFixFaulty]_vars

\* The server after seedBusNumbers has run on an empty database.
InitSeeded ==
    /\ buses = [n \in initialBusNumbers |-> busSchema(n)]
    /\ seedPc = "done"
    /\ reg = [c \in RegCalls |-> IdleRegCall]
    /\ locations = <<>>
    /\ fix = [c \in FixCalls |-> IdleFixCall]
    /\ login = [c \in LoginCalls |-> IdleLoginCall]
    /\ seeders = [i \in Seeders |-> IdleSeeder]
    /\ omitUndefined \in BOOLEAN

\* The location pipeline of a seeded server.
SpecFixSeeded == InitSeeded /\ [][NextFix]_vars

\* ------------------------------------------- seeding by several instances
\* The seed list in the order insertMany writes it.
seedOrder == <<"MH08AA1234", "MH08BB5678", "MH08CC9012">>

\* A Bus collection without the unique index: an insert never fails, and in
\* a collection keyed by busNumber it takes the place of the old document.
DuplicateKey_Never(n) == FALSE

\* busNumber: { unique: true }: an insert of a busNumber that a document
\* already has is rejected with a duplicate key error.
DuplicateKey(n) == n \in DOMAIN buses

\* seedBusNumbers of instance i: const count = await Bus.countDocuments()
\* and the test count === 0.
SeederCount(i) ==
    /\ seeders[i].pc = "count"
    /\ \A j \in Seeders : j < i => seeders[j].pc # "count"
    /\ seeders' = [seeders EXCEPT ![i].pc =
                      IF Cardinality(DOMAIN buses) = 0 THEN "insert" ELSE "done"]
    /\ UNCHANGED <<buses, seedPc, reg, locations, fix, login, omitUndefined>>

\* One document of Bus.insertMany (ordered): it is inserted and the run goes
\* on, or the insert is rejected, insertMany throws and the catch block
\* logs "Seeding error:" and returns.
SeederInsert(i) ==
    /\ seeders[i].pc = "insert"
    /\ LET n == seedOrder[seeders[i].next] IN
         IF DuplicateKey(n)
         THEN /\ seeders' = [seeders EXCEPT ![i].pc = "done", ![i].failed = TRUE]
              /\ UNCHANGED buses
         ELSE /\ buses' = [m \in DOMAIN buses \cup {n} |->
                              IF m = n THEN busSchema(n) ELSE buses[m]]
              /\ seeders' = [seeders EXCEPT
                    ![i].pc = IF seeders[i].next = Len(seedOrder) THEN "done" ELSE "insert",
                    ![i].next = IF seeders[i].next = Len(seedOrder) THEN @ ELSE @ + 1]
    /\ UNCHANGED <<seedPc, reg, locations, fix, login, omitUndefined>>

\* The seed runs of the instances and the register calls beside them.
NextSeed ==
    \/ \E i \in Seeders : SeederCount(i)
    \/ \E i \in Seeders : SeederInsert(i)
    \/ \E c \in 1..MaxSeedRegCalls, body \in RegisterBodies : RegisterFindOne(c, body)
    \/ \E c \in 1..MaxSeedRegCalls : RegisterFind(c)
    \/ \E c \in 1..MaxSeedRegCalls : RegisterSave(c)

SpecSeed == InitOmitUndefined /\ [][NextSeed]_vars

\* The whole server.
Next == NextRegistry \/ NextFixFaulty \/ NextLogin \/ NextSeed

Spec == Init /\ [][Next]_vars

\* ------------------------------------------------------ registry properties
RegOk(c) == reg[c].pc = "done" /\ reg[c].res.status = 200

\* C1: no two vehicles with assigned = true hold the same deviceId, in every
\* reachable state and under any interleaving of register calls.
C1_UniqueHandles ==
    \A m, n \in DOMAIN buses :
        (m # n /\ buses[m].assigned /\ buses[n].assigned)
            => buses[m].deviceId # buses[n].deviceId

\* C2: once a register call on a vehicle has returned success with a
\* deviceId, the vehicle stays assigned with that deviceId and the caller's
\* username in every later state.
C2_HandleNeverFreed ==
    \A c \in RegCalls :
        RegOk(c) => /\ reg[c].busNumber \in DOMAIN buses
                    /\ buses[reg[c].busNumber].assigned
                    /\ buses[reg[c].busNumber].deviceId = reg[c].res.deviceId
                    /\ buses[reg[c].busNumber].username = reg[c].username

\* C3: a register call on a vehicle whose assigned flag is already true
\* returns 'Bus already assigned' and changes no Bus document.  The flag
\* never goes back to false, so a flag that is true when the request arrives
\* is true when findOne reads it; a call that reads it true returns 'Bus
\* already assigned' without reaching the pick or the save, and its step
\* leaves every Bus document as it was.
C3_AlreadyAssignedUnchanged ==
    /\ [](\A c \in RegCalls :
            reg[c].sawAssigned =>
                /\ reg[c].pc = "done"
                /\ reg[c].res = Response(400, "Bus already assigned", NULL))
    /\ [][\A c \in RegCalls :
            (reg'[c].sawAssigned /\ reg'[c] # reg[c]) => buses' = buses]_vars
    /\ [][\A n \in DOMAIN buses :
            buses[n].assigned => (n \in DOMAIN buses' /\ buses'[n].assigned)]_vars

\* A call that arrived for an assigned vehicle has returned.
C3_Witness ==
    \E c \in RegCalls : reg[c].sawAssigned /\ reg[c].pc = "done"

\* C4: once register calls on PoolSize distinct vehicles have returned
\* success, a further register call on another known, unassigned vehicle
\* returns 'No device IDs left'.
C4_PoolExhaustedAfterN ==
    \A c \in RegCalls :
        (/\ reg[c].pc = "done"
         /\ reg[c].sawPoolSpent
         /\ reg[c].busNumber \in initialBusNumbers
         /\ reg[c].username # ""
         /\ ~reg[c].sawAssigned)
            => reg[c].res = Response(400, "No device IDs left", NULL)

\* C5: every vehicle is fully assigned (assigned, a deviceId of the pool, a
\* username) or fully unassigned (not assigned, deviceId null, username null).
C5_FullyAssignedOrUnassigned ==
    \A n \in DOMAIN buses :
        \/ /\ buses[n].assigned
           /\ buses[n].deviceId \in 1..PoolSize
           /\ buses[n].username \notin {NullString, ""}
        \/ /\ ~buses[n].assigned
           /\ buses[n].deviceId = NULL
           /\ buses[n].username = NullString

\* One vehicle has been assigned by a register call while another is still
\* unassigned.
C5_Witness ==
    /\ \E c \in RegCalls : RegOk(c)
    /\ \E m, n \in DOMAIN buses : buses[m].assigned /\ ~buses[n].assigned

\* ------------------------------------------------------ location properties
FixOk(c) == fix[c].pc = "done" /\ fix[c].res.status = 200

\* The call found a previous fix whose timestamp is earlier than its own.
Derives(c) ==
    /\ fix[c].prev # NoLocation
    /\ TimeDiff(fix[c].prev, fix[c].raw) # NaN
    /\ TimeDiff(fix[c].prev, fix[c].raw) > 0

\* C6: there is at most one Location document per busNumber, in every
\* reachable state, also after concurrent location calls for a vehicle that
\* has no stored fix yet.
C6_OneFixPerVehicle ==
    \A i, j \in 1..Len(locations) :
        i # j => locations[i].busNumber # locations[j].busNumber

\* status is 'moving' exactly when speed is strictly greater than 1 m/s.
Classified(loc) ==
    /\ loc.status \in {"moving", "stopped"}
    /\ loc.status = "moving" <=> loc.speed > 1 * Fixed

\* C7: for every accepted fix, the stored and the returned status is
\* 'moving' exactly when the stored smoothed speed is strictly greater than
\* 1 m/s, and 'stopped' otherwise.
C7_MotionStateFromSpeed ==
    /\ \A c \in FixCalls : FixOk(c) => Classified(fix[c].res.location)
    /\ \A i \in 1..Len(locations) : Classified(locations[i])

\* C8: the first-ever fix of a vehicle (the call loaded no previous fix) is
\* stored and returned with speed 0 and status 'stopped', whatever the
\* payload carries.
C8_FirstFixStopped ==
    \A c \in FixCalls :
        (FixOk(c) /\ fix[c].prev = NoLocation)
            => /\ fix[c].res.location.speed = 0
               /\ fix[c].res.location.status = "stopped"

\* The document is the stored first fix of a vehicle, and the payload of
\* that fix carried neither speed nor heading.
FirstFixWithoutMotion(loc) ==
    \E d \in FixCalls :
        /\ FixOk(d)
        /\ fix[d].prev = NoLocation
        /\ fix[d].raw.speed = UNDEFINED
        /\ fix[d].raw.heading = UNDEFINED
        /\ fix[d].res.location = loc

\* C9: when the previous stored fix has no previously derived speed or
\* heading (the second fix of a vehicle whose first fix carried none) and
\* dt > 0, the stored speed is the raw speed dist3d / dt and the stored
\* heading is the raw bearing, unsmoothed.
C9_RawPassesThrough ==
    \A c \in FixCalls :
        (FixOk(c) /\ Derives(c) /\ FirstFixWithoutMotion(fix[c].prev))
            => /\ fix[c].res.location.speed = rawSpeed(fix[c].prev, fix[c].raw)
               /\ fix[c].res.location.heading = rawBearing(fix[c].prev, fix[c].raw)

\* C10: a fix whose timestamp is not later than that of the previous stored
\* fix (dt <= 0) skips derivation: the middleware leaves the body as it came,
\* the speed and heading of the result are the payload's own when it carries
\* them, and the call returns success.
C10_SkipsDerivation ==
    \A c \in FixCalls :
        (/\ fix[c].pc # "idle"
         /\ fix[c].prev # NoLocation
         /\ TimeDiff(fix[c].prev, fix[c].raw) # NaN
         /\ TimeDiff(fix[c].prev, fix[c].raw) <= 0)
            => /\ fix[c].body = fix[c].raw
               /\ fix[c].pc = "done" =>
                    /\ fix[c].res.status = 200
                    /\ fix[c].raw.speed # UNDEFINED =>
                         fix[c].res.location.speed = fix[c].raw.speed
                    /\ fix[c].raw.heading # UNDEFINED =>
                         fix[c].res.location.heading = fix[c].raw.heading

\* An out-of-order fix (dt < 0) that carries its own speed has returned.
C10_Witness ==
    \E c \in FixCalls :
        /\ FixOk(c)
        /\ fix[c].prev # NoLocation
        /\ TimeDiff(fix[c].prev, fix[c].raw) # NaN
        /\ TimeDiff(fix[c].prev, fix[c].raw) < 0
        /\ fix[c].raw.speed # UNDEFINED

\* C11: a location call whose timestamp cannot be parsed as an instant
\* returns 400 (InvalidInput) and leaves the Location collection as it was:
\* no call with such a body gets another answer, and no stored document
\* carries such a timestamp.
C11_InvalidTimestampRejected ==
    /\ \A c \in FixCalls :
         (fix[c].pc = "done" /\ DateParse(fix[c].raw.timestamp) = NaN)
            => fix[c].res.status = 400
    /\ \A i \in 1..Len(locations) : DateParse(locations[i].timestamp) # NaN

\* C12: when loading the previous fix fails, the location call reports a
\* failure to the caller and persists no fix: it never answers 200.
C12_LoadFailureReported ==
    \A c \in FixCalls :
        (fix[c].loadFailed /\ fix[c].pc = "done") => fix[c].res.status = 500

\* C13: last-write-wins.  Every stored fix is, field by field, the record of
\* one location call that completed its write (the enriched body of that call
\* with schema defaults for what it left out); no stored fix carries fields
\* of two different calls.
C13_LastWriteWinsWhole ==
    \A i \in 1..Len(locations) :
        \E c \in FixCalls :
            /\ fix[c].pc = "done"
            /\ fix[c].res.status = 200
            /\ locations[i] = Inserted(fix[c].body)

\* C14: a step of a location call for vehicle V changes no stored fix of
\* another vehicle (none is removed either) and no Bus record, and the fix
\* the call derives is computed from the payload and a previous fix that is
\* either absent or a stored fix of V.
C14_OtherVehiclesUntouched ==
    [][\A c \in FixCalls :
          fix'[c] # fix[c] =>
             LET V == fix'[c].raw.busNumber IN
               /\ buses' = buses
               /\ Len(locations') >= Len(locations)
               /\ \A i \in 1..Len(locations) :
                     locations[i].busNumber # V => locations'[i] = locations[i]
               /\ fix[c].pc = "idle" =>
                     /\ fix'[c].body = DerivedBody(fix'[c].prev, fix'[c].raw)
                     /\ \/ fix'[c].prev = NoLocation
                        \/ \E i \in 1..Len(locations) :
                              /\ locations[i].busNumber = V
                              /\ fix'[c].prev = locations[i]]_vars

\* Two calls for different vehicles were in flight together and both are
\* done, each with its own stored fix, on a server that has Bus records.
C14_Witness ==
    /\ DOMAIN buses = initialBusNumbers
    /\ \E c, d \in FixCalls :
          /\ fix[c].pc = "done" /\ fix[d].pc = "done"
          /\ fix[c].res.status = 200 /\ fix[d].res.status = 200
          /\ fix[c].raw.busNumber = "MH08AA1234"
          /\ fix[d].raw.busNumber = "MH08BB5678"
          /\ fix[d].prev = NoLocation
          /\ fix[c].prev = NoLocation
    /\ \E i, j \in 1..Len(locations) :
          /\ locations[i].busNumber = "MH08AA1234"
          /\ locations[j].busNumber = "MH08BB5678"

\* C15: a register call with a username and a busNumber that is not in the
\* Bus collection returns 'Bus not found' at once and leaves the Bus
\* collection as it was: no record created, none changed, no deviceId taken.
C15_UnknownBusNotFound ==
    [][\A c \in RegCalls :
          (/\ reg[c].pc = "idle"
           /\ reg'[c].pc # "idle"
           /\ reg'[c].username # ""
           /\ reg'[c].busNumber # ""
           /\ reg'[c].busNumber \notin DOMAIN buses)
             => /\ reg'[c].pc = "done"
                /\ reg'[c].res = Response(400, "Bus not found", NULL)
                /\ buses' = buses]_vars

\* A seeded registry with an assigned bus, and a call for an unknown bus that
\* was answered 'Bus not found'.
C15_Witness ==
    /\ DOMAIN buses = initialBusNumbers
    /\ \E n \in DOMAIN buses : buses[n].assigned
    /\ \E c \in RegCalls :
          /\ reg[c].pc = "done"
          /\ reg[c].busNumber = "MH00XX0000"
          /\ reg[c].res.message = "Bus not found"

\* The assigned buses whose username is u.
Holders(u) == {n \in DOMAIN buses : buses[n].assigned /\ buses[n].username = u}

\* C16: a login call with a username answers 'No configuration found'
\* exactly when no assigned bus has that username; otherwise it answers 200
\* with the busNumber of an assigned bus of that username and the deviceId
\* of that same bus.  It changes no Bus record.
C16_LoginFindsAssignedBus ==
    [][\A c \in LoginCalls :
          (login[c].pc = "idle" /\ login'[c].pc = "done" /\ login'[c].username # "")
             => LET u == login'[c].username
                    res == login'[c].res IN
                  /\ (res = NoConfiguration) <=> (Holders(u) = {})
                  /\ Holders(u) # {} =>
                        /\ res.status = 200
                        /\ res.busNumber \in Holders(u)
                        /\ res.deviceId = buses[res.busNumber].deviceId
                  /\ buses' = buses]_vars

\* A login was answered 200 for a username that holds two buses.
C16_Witness ==
    \E c \in LoginCalls :
        /\ login[c].pc = "done"
        /\ login[c].res.status = 200
        /\ Cardinality(Holders(login[c].username)) = 2

\* C17: every stored location document carries the busNumber of a document
\* of the Bus collection.
C17_FixReferencesBus ==
    \A i \in 1..Len(locations) : locations[i].busNumber \in DOMAIN buses

\* A value v is the quotient num / den cut to the resolution of the model.
IsQuotient(v, num, den) == v * den <= num /\ num < (v + 1) * den

\* C19: a location call answered 200 that loaded a previous fix with a
\* speed p and a heading h, at dt > 0, stored the speed 0.3 * rawSpeed +
\* 0.7 * p and the heading 0.3 * rawBearing + 0.7 * h, where rawSpeed is
\* sqrt(dist2d^2 + altitudeDelta^2) / dt (all to the resolution 1 / Fixed);
\* with p = 1.0 and rawSpeed = 2.0 the stored speed is 1.3.
C19_SmoothedSpeedAndHeading ==
    \A c \in FixCalls :
        (/\ fix[c].pc = "done"
         /\ fix[c].res.status = 200
         /\ fix[c].prev # NoLocation
         /\ TimeDiff(fix[c].prev, fix[c].raw) # NaN
         /\ TimeDiff(fix[c].prev, fix[c].raw) > 0
         /\ fix[c].prev.speed >= 0
         /\ fix[c].prev.heading >= 0)
          => LET prev == fix[c].prev
                 raw == fix[c].raw
                 loc == fix[c].res.location
                 dt == TimeDiff(prev, raw)
                 dist2d == Abs(raw.latitude - prev.latitude)
                 altDelta == (IF raw.altitude = UNDEFINED THEN 0 ELSE raw.altitude)
                             - (IF prev.altitude = NULL THEN 0 ELSE prev.altitude)
                 d == dist3d(prev, raw)
                 rs == rawSpeed(prev, raw)
                 rb == rawBearing(prev, raw)
             IN /\ d * d <= dist2d * dist2d + altDelta * altDelta
                /\ dist2d * dist2d + altDelta * altDelta < (d + 1) * (d + 1)
                /\ IsQuotient(rs, d * Fixed, dt)
                /\ IsQuotient(loc.speed, 3 * rs + 7 * prev.speed, 10)
                /\ IsQuotient(loc.heading, 3 * rb + 7 * prev.heading, 10)
                /\ (prev.speed = Fixed /\ rs = 2 * Fixed) => loc.speed * 10 = 13 * Fixed

\* A call whose previous fix had speed 1.0 and whose raw speed was 2.0 (200 m
\* in 100 s) stored 1.3; another moved in three dimensions (300 m north, 400 m up).
C19_Witness ==
    /\ \E c \in FixCalls :
          /\ fix[c].pc = "done"
          /\ fix[c].res.status = 200
          /\ fix[c].prev # NoLocation
          /\ fix[c].prev.speed = Fixed
          /\ TimeDiff(fix[c].prev, fix[c].raw) = 100
          /\ rawSpeed(fix[c].prev, fix[c].raw) = 2 * Fixed
          /\ fix[c].res.location.speed * 10 = 13 * Fixed
          /\ fix[c].res.location.heading * 10 = 7 * 90 * Fixed

\* C18: in the state a location call leaves when it answers 200, the
\* current fix of its bus (what Location.findOne({ busNumber }) sorted by
\* timestamp reads) equals, field by field, the location the call returned.
C18_StoredEqualsReturned ==
    [][\A c \in FixCalls :
          (fix[c].pc # "done" /\ fix'[c].pc = "done" /\ fix'[c].res.status = 200)
             => \A i \in Latest(fix[c].raw.busNumber)' :
                   locations'[i] = fix'[c].res.location]_vars

=============================================================================
